---- MODULE Spec2Model ----
(***************************************************************************)
(* A model of the CATHe scripts:                                           *)
(*   src/all/get_3Di/get_3Di_sequences.py   (trim_pdb, download_and_trim_  *)
(*       pdb, process_dataset, main)                                       *)
(*   src/all/models/all_models/run_ann_tests.py                            *)
(*       (run_script_with_combinations)                                    *)
(*   src/cathe-predict/predict_embed.py     (get_3di_sequences, embed_3Di, *)
(*       main)                                                             *)
(* Each script is a state machine of its own; the specifications SpecTrim, *)
(* Spec, SpecPool, SpecCombos and SpecPredict run one of them and leave    *)
(* the variables of the others at rest.                                    *)
(***************************************************************************)
EXTENDS Integers, Sequences, FiniteSets, TLC

VARIABLES
    \* ---- trim_pdb (get_3Di_sequences.py:30-62)
    structure,            \* the parsed file: a sequence of chains in file order
    sequence,             \* the reference sequence argument
    chain_id, model_id,   \* the requested chain and model
    seq_residues,         \* the set of residues to keep
    seq_index,            \* cursor in the reference sequence (0-based)
    untrimmed_sequence,   \* letters seen during the scan
    ei, ri,               \* position of the scan: chain, residue (1-based)
    trim_pc,              \* "idle" | "scan" | "save" | "verify" | "done"
    trimmed,              \* the structure read back from the trimmed file
    pdb_sequence,         \* what extract_sequence_from_pdb returned
    trim_result,          \* "none" | "path" | "ValueError"
    \* ---- get_3Di_sequences.py: main and process_dataset (lines 133-218)
    datasets_to_process,  \* the csv files main has still to read
    dataset_name,         \* the csv file being processed
    csv_len,              \* number of rows of that file
    malformed,            \* its rows whose fields cannot be read (lines 66-71)
    calls,                \* process_dataset calls still to make for that file
    main_pc,              \* "loop" | "call" | "process" | "done" | "crashed"
    crash,                \* where the exception that ended main was raised
    returned,             \* the process_dataset calls that returned, in order
    job,                  \* the running process_dataset call
    proc_pc,              \* where process_dataset is
    data,                 \* its rows, in order
    submitted,            \* how many of them were given to the pool
    task,                 \* row -> state of its download_and_trim_pdb call
    collected,            \* rows whose future as_completed has yielded
    results,              \* the results list
    output_dir,           \* files in output_dir
    db_files,             \* suffixes of the files query_db + suffix that exist
    fastas,               \* FASTA files in ./data/Dataset/3Di
    cmd_failed,           \* a foldseek command of this call exited non-zero
    \* ---- process_dataset, lines 137-141: the pool with its calls counted
    pool_pc,              \* "idle" | "submit" | "collect" | "shutdown" | "left"
    n_submitted,          \* calls given to executor.submit
    n_queued,             \* calls waiting for a worker thread
    n_running,            \* calls executing
    n_returned,           \* calls that returned a record
    n_raised,             \* calls that ended with an exception
    n_collected,          \* records appended to results
    \* ---- run_ann_tests.py: run_script_with_combinations (lines 7-42)
    param_values,         \* the six parameter lists, in the order of line 24
    combinations_to_skip, \* the tuples to skip
    combinations,         \* list(itertools.product(...))
    combo_i,              \* tuples the loop has gone through
    runs,                 \* the tuples the script was run for, in order
    nonzero_seen,         \* some run exited non-zero
    combo_pc,             \* "idle" | "loop" | "done"
    \* ---- predict_embed.py
    pred_entry,           \* the function that was called: "main" | "embed_3Di"
    input_type,           \* args.input_type
    pred_pc,              \* where the call is
    num_seq,              \* rows of Dataset.csv
    embed_i,              \* i of embed_sequence
    saved,                \* the s_no of the batch files written
    pdb_files,            \* the .pdb files of the folder, in listing order
    pdb_k,                \* the file the loop of line 69 is at
    pdb_db,               \* the file whose database is at db_output (0: none)
    fasta_output,         \* the entries of the file's own FASTA
    combined_fasta,       \* the entries of the combined FASTA
    cmd_ok,               \* file -> how its foldseek commands ended
    completed,            \* the steps of main that returned, in order
    pred_error,           \* the exception that ended the call
    \* ---- ann_TM_Vec.py: bm_generator (lines 108-129) under model.fit
    X_t, y_t,             \* the samples and their encoded labels
    num_classes,          \* len(np.unique(y_tot))
    batch_size,           \* the batch_size argument
    val,                  \* the cursor of the generator (0-based)
    gen_j,                \* j of the loop of line 115
    X_batch, y_batch,     \* the batch being filled, then yielded
    gen_pc,               \* "idle" | "suspended" | "fill"
    stream,               \* every pair appended to a batch so far, in order
    fit_step,             \* batches model.fit has taken in this epoch
    epoch                 \* epochs model.fit has completed

trimVars == <<structure, sequence, chain_id, model_id, seq_residues, seq_index,
              untrimmed_sequence, ei, ri, trim_pc, trimmed, pdb_sequence,
              trim_result>>

pipeVars == <<datasets_to_process, dataset_name, csv_len, malformed, calls,
              main_pc, crash, returned, job, proc_pc, data, submitted, task,
              collected, results, output_dir, db_files, fastas, cmd_failed>>

poolVars == <<pool_pc, n_submitted, n_queued, n_running, n_returned, n_raised,
              n_collected>>

comboVars == <<param_values, combinations_to_skip, combinations, combo_i, runs,
               nonzero_seen, combo_pc>>

predVars == <<pred_entry, input_type, pred_pc, num_seq, embed_i, saved,
              pdb_files, pdb_k, pdb_db, fasta_output, combined_fasta, cmd_ok,
              completed, pred_error>>

genVars == <<X_t, y_t, num_classes, batch_size, val, gen_j, X_batch, y_batch,
             gen_pc, stream, fit_step, epoch>>

vars == <<trimVars, pipeVars, poolVars, comboVars, predVars, genVars>>

\* What the actions of one script leave alone: the state of the others.
notTrim == <<pipeVars, poolVars, comboVars, predVars, genVars>>
notPipe == <<trimVars, poolVars, comboVars, predVars, genVars>>
notPool == <<trimVars, pipeVars, comboVars, predVars, genVars>>
notCombo == <<trimVars, pipeVars, poolVars, predVars, genVars>>
notPred == <<trimVars, pipeVars, poolVars, comboVars, genVars>>
notGen == <<trimVars, pipeVars, poolVars, comboVars, predVars>>

----------------------------------------------------------------------------
(* Bounds of the model *)

MaxChainLen == 3
MaxSeqLen == 2
NRows == 2
NTasks == 22
MaxValues == 2
MaxBatches == 3
MaxPdbFiles == 3
MaxSamples == 3
MaxClasses == 2
MaxBatchSize == 3
MaxEpochs == 2

\* ThreadPoolExecutor(max_workers=20)
max_workers == 20

----------------------------------------------------------------------------
(* Sequences of letters, residues and structures *)

RECURSIVE SeqsUpTo(_, _)
SeqsUpTo(S, n) ==
    IF n = 0 THEN {<<>>}
    ELSE LET shorter == SeqsUpTo(S, n - 1)
         IN  shorter \cup {Append(s, x) : s \in {t \in shorter : Len(t) = n - 1}, x \in S}

\* One-letter codes the reference sequences are written in; "X" is the
\* unknown residue.
Letters == {"A", "G", "X"}

\* A residue as Bio.PDB sees it: res is seq1(residue.resname), het is
\* residue.id[0] # ' ' (HETATM records and waters).  ALA, GLY, UNK as ATOM
\* records; a water (seq1 gives "X"); an alanine given as HETATM.
Residues ==
    { [res |-> "A", het |-> FALSE], [res |-> "G", het |-> FALSE],
      [res |-> "X", het |-> FALSE], [res |-> "X", het |-> TRUE],
      [res |-> "A", het |-> TRUE] }

Chain(m, c, rs) == [model |-> m, chain |-> c, residues |-> rs]

\* The structures the scan is run on: chain A of model 0, alone or followed
\* by chain B of model 0 or by chain A of a second model.
Structures ==
    LET mains  == { Chain(0, "A", rs) : rs \in SeqsUpTo(Residues, MaxChainLen) }
        others == { Chain(0, "B", <<[res |-> "A", het |-> FALSE]>>),
                    Chain(1, "A", <<[res |-> "G", het |-> FALSE],
                                    [res |-> "A", het |-> FALSE]>>) }
    IN  { <<m>> : m \in mains } \cup { <<m, o>> : m \in mains, o \in others }

Requests == { <<0, "A">>, <<1, "A">>, <<0, "B">> }

----------------------------------------------------------------------------
(* get_3Di_sequences.py: the pure helpers *)

\* clean_sequence: sequence.replace('X', '')
RECURSIVE clean_sequence(_)
clean_sequence(s) ==
    IF s = <<>> THEN <<>>
    ELSE IF Head(s) = "X" THEN clean_sequence(Tail(s))
         ELSE <<Head(s)>> \o clean_sequence(Tail(s))

compare_sequences_always(csv_sequence, pdb_seq) == TRUE

\* compare_sequences: csv_sequence == pdb_sequence
compare_sequences(csv_sequence, pdb_seq) == csv_sequence = pdb_seq

\* The two ifs at lines 39 and 41: the chain is scanned only when its model
\* and its chain id are the requested ones.
ChainMatches(entry, c, m) == entry.model = m /\ entry.chain = c

ResidueMatches_first(res_name, seq, idx) ==
    idx < Len(seq) /\ res_name = seq[1]

\* Line 45: seq_index < len(sequence) and res_name == sequence[seq_index]
ResidueMatches(res_name, seq, idx) ==
    idx < Len(seq) /\ res_name = seq[idx + 1]

\* TrimSelect.accept_residue: residue in self.residues.  A residue is named
\* by its place <<chain number, residue number>> in the structure.
accept_residue(residue, residues) == residue \in residues

\* PDBIO.save with TrimSelect, then PDBParser on the written file: every
\* chain keeps its accepted residues in order, and a chain none of whose
\* residues was written does not appear in the file.
RECURSIVE KeepAccepted(_, _, _, _)
KeepAccepted(rs, e, r, residues) ==
    IF r > Len(rs) THEN <<>>
    ELSE (IF accept_residue(<<e, r>>, residues) THEN <<rs[r]>> ELSE <<>>)
         \o KeepAccepted(rs, e, r + 1, residues)

RECURSIVE SaveAndParse(_, _, _)
SaveAndParse(struct, e, residues) ==
    IF e > Len(struct) THEN <<>>
    ELSE LET kept == KeepAccepted(struct[e].residues, e, 1, residues)
         IN  (IF kept = <<>> THEN <<>>
              ELSE <<Chain(struct[e].model, struct[e].chain, kept)>>)
             \o SaveAndParse(struct, e + 1, residues)

\* extract_sequence_from_pdb, lines 104-111: the letters of the standard
\* residues of every chain whose model and id are the requested ones.
RECURSIVE StandardLetters(_)
StandardLetters(rs) ==
    IF rs = <<>> THEN <<>>
    ELSE (IF Head(rs).het THEN <<>> ELSE <<Head(rs).res>>)
         \o StandardLetters(Tail(rs))

RECURSIVE ExtractFrom(_, _, _)
ExtractFrom(struct, c, m) ==
    IF struct = <<>> THEN <<>>
    ELSE (IF ChainMatches(Head(struct), c, m)
          THEN StandardLetters(Head(struct).residues) ELSE <<>>)
         \o ExtractFrom(Tail(struct), c, m)

\* chain_model_found, lines 103-108
chain_model_found(struct, c, m) ==
    \E e \in 1..Len(struct) : ChainMatches(struct[e], c, m)

----------------------------------------------------------------------------
(* trim_pdb as a step machine *)

TrimIdle ==
    /\ structure = <<>> /\ sequence = <<>> /\ chain_id = "A" /\ model_id = 0
    /\ seq_residues = {} /\ seq_index = 0 /\ untrimmed_sequence = <<>>
    /\ ei = 1 /\ ri = 1 /\ trim_pc = "idle" /\ trimmed = <<>>
    /\ pdb_sequence = <<>> /\ trim_result = "none"

\* Lines 31-37: the file is parsed and the scan starts.
TrimInit ==
    /\ structure \in Structures
    /\ sequence \in SeqsUpTo(Letters, MaxSeqLen)
    /\ \E rq \in Requests : model_id = rq[1] /\ chain_id = rq[2]
    /\ seq_residues = {} /\ seq_index = 0 /\ untrimmed_sequence = <<>>
    /\ ei = 1 /\ ri = 1 /\ trim_pc = "scan" /\ trimmed = <<>>
    /\ pdb_sequence = <<>> /\ trim_result = "none"

\* Lines 38-41: a chain of another model, or with another id, is passed over.
ScanSkipChain ==
    /\ trim_pc = "scan" /\ ei <= Len(structure)
    /\ ~ChainMatches(structure[ei], chain_id, model_id)
    /\ ei' = ei + 1 /\ ri' = 1
    /\ UNCHANGED <<structure, sequence, chain_id, model_id, seq_residues,
                   seq_index, untrimmed_sequence, trim_pc, trimmed,
                   pdb_sequence, trim_result>>
    /\ UNCHANGED notTrim

\* Lines 42-49: one turn of the residue loop.
ScanResidue ==
    /\ trim_pc = "scan" /\ ei <= Len(structure)
    /\ ChainMatches(structure[ei], chain_id, model_id)
    /\ ri <= Len(structure[ei].residues)
    /\ LET res_name == structure[ei].residues[ri].res
           hit      == ResidueMatches(res_name, sequence, seq_index)
           idx      == IF hit THEN seq_index + 1 ELSE seq_index
       IN  /\ untrimmed_sequence' = Append(untrimmed_sequence, res_name)
           /\ seq_residues' = IF hit THEN seq_residues \cup {<<ei, ri>>}
                              ELSE seq_residues
           /\ seq_index' = idx
           /\ IF idx = Len(sequence)
              THEN ei' = ei + 1 /\ ri' = 1          \* break
              ELSE ei' = ei /\ ri' = ri + 1
    /\ UNCHANGED <<structure, sequence, chain_id, model_id, trim_pc, trimmed,
                   pdb_sequence, trim_result>>
    /\ UNCHANGED notTrim

\* The residue loop runs off the end of the chain.
ScanEndChain ==
    /\ trim_pc = "scan" /\ ei <= Len(structure)
    /\ ChainMatches(structure[ei], chain_id, model_id)
    /\ ri > Len(structure[ei].residues)
    /\ ei' = ei + 1 /\ ri' = 1
    /\ UNCHANGED <<structure, sequence, chain_id, model_id, seq_residues,
                   seq_index, untrimmed_sequence, trim_pc, trimmed,
                   pdb_sequence, trim_result>>
    /\ UNCHANGED notTrim

\* The model loop ends.
ScanDone ==
    /\ trim_pc = "scan" /\ ei > Len(structure)
    /\ trim_pc' = "save"
    /\ UNCHANGED <<structure, sequence, chain_id, model_id, seq_residues,
                   seq_index, untrimmed_sequence, ei, ri, trimmed,
                   pdb_sequence, trim_result>>
    /\ UNCHANGED notTrim

\* Lines 52-55: the trimmed file is written.
SaveTrimmed ==
    /\ trim_pc = "save"
    /\ trimmed' = SaveAndParse(structure, 1, seq_residues)
    /\ trim_pc' = "verify"
    /\ UNCHANGED <<structure, sequence, chain_id, model_id, seq_residues,
                   seq_index, untrimmed_sequence, ei, ri, pdb_sequence,
                   trim_result>>
    /\ UNCHANGED notTrim

\* Lines 58-62: the trimmed file is read back and compared; line 114 raises
\* ValueError when the chain is not in the file, line 60 on a mismatch.
VerifyTrimmed ==
    /\ trim_pc = "verify"
    /\ IF ~chain_model_found(trimmed, chain_id, model_id)
       THEN /\ trim_result' = "ValueError"
            /\ UNCHANGED pdb_sequence
       ELSE /\ pdb_sequence' = ExtractFrom(trimmed, chain_id, model_id)
            /\ trim_result' =
                 IF compare_sequences(clean_sequence(sequence), pdb_sequence')
                 THEN "path" ELSE "ValueError"
    /\ trim_pc' = "done"
    /\ UNCHANGED <<structure, sequence, chain_id, model_id, seq_residues,
                   seq_index, untrimmed_sequence, ei, ri, trimmed>>
    /\ UNCHANGED notTrim

TrimNext ==
    \/ ScanSkipChain
    \/ ScanResidue
    \/ ScanEndChain
    \/ ScanDone
    \/ SaveTrimmed
    \/ VerifyTrimmed

----------------------------------------------------------------------------
(* get_3Di_sequences.py: download_and_trim_pdb, process_dataset and main *)

\* ThreadPoolExecutor starts a queued call only on one of its max_workers
\* threads.
WorkerFree_unbounded(busy) == TRUE

WorkerFree(busy) == busy < max_workers

\* dataset_map (lines 173-177) and datasets_to_process (line 179)
DatasetChoices == {"all", "test", "train", "validation"}

datasets_for(choice) ==
    CASE choice = "all"        -> <<"Test", "Train", "Validation">>
      [] choice = "test"       -> <<"Test">>
      [] choice = "train"      -> <<"Train">>
      [] choice = "validation" -> <<"Validation">>

\* Lines 185-199 and 213-218: the process_dataset calls made for a csv file.
calls_for(name) ==
    IF name = "Train" THEN <<"Train_first", "Train_second">> ELSE <<name>>

\* Lines 186-188: half_index = len(data) // 2, iloc[:half_index],
\* iloc[half_index:]; the other files are processed whole.
rows_of(call, n) ==
    LET half_index == n \div 2
    IN  CASE call = "Train_first"  -> [k \in 1..half_index |-> k]
          [] call = "Train_second" -> [k \in 1..(n - half_index) |-> half_index + k]
          [] OTHER                 -> [k \in 1..n |-> k]

Range(f) == { f[x] : x \in DOMAIN f }

\* States of one download_and_trim_pdb call.  "new": not submitted;
\* "queued": in the pool's queue; "fetch", "trim", "remove": running, before
\* line 75, 82, 85; "ok", "None": returned a record with a path, with None;
\* "raised": ended with an exception.
Running  == {"fetch", "trim", "remove"}
Finished == {"ok", "None", "raised"}

busy_workers == Cardinality({ r \in DOMAIN task : task[r] \in Running })

PipeIdle ==
    /\ datasets_to_process = <<>> /\ dataset_name = "" /\ csv_len = 0
    /\ malformed = {} /\ calls = <<>> /\ main_pc = "idle" /\ crash = "none"
    /\ returned = <<>> /\ job = "" /\ proc_pc = "idle" /\ data = <<>>
    /\ submitted = 0 /\ task = <<>> /\ collected = {} /\ results = <<>>
    /\ output_dir = {} /\ db_files = {} /\ fastas = {} /\ cmd_failed = FALSE

\* Lines 169-179: main has parsed its arguments.
PipeInit ==
    /\ \E choice \in DatasetChoices : datasets_to_process = datasets_for(choice)
    /\ dataset_name = "" /\ csv_len = 0 /\ malformed = {} /\ calls = <<>>
    /\ main_pc = "loop" /\ crash = "none" /\ returned = <<>> /\ job = ""
    /\ proc_pc = "idle" /\ data = <<>> /\ submitted = 0 /\ task = <<>>
    /\ collected = {} /\ results = <<>> /\ output_dir = {} /\ db_files = {}
    /\ fastas = {} /\ cmd_failed = FALSE

procVars == <<job, proc_pc, data, submitted, task, collected, results,
              output_dir, db_files, cmd_failed>>

\* Lines 181-183: the next csv file is read.  Its rows are numbered by
\* their 'Unnamed: 0' column; some may hold fields that lines 66-71 cannot
\* read (a Domain shorter than six characters or without a model number, an
\* empty Sequence cell).
ReadCsv ==
    /\ main_pc = "loop" /\ datasets_to_process # <<>>
    /\ dataset_name' = Head(datasets_to_process)
    /\ datasets_to_process' = Tail(datasets_to_process)
    /\ \E n \in 1..NRows : \E bad \in SUBSET (1..n) :
          csv_len' = n /\ malformed' = bad
    /\ calls' = calls_for(dataset_name')
    /\ main_pc' = "call"
    /\ UNCHANGED <<crash, returned, fastas>>
    /\ UNCHANGED procVars
    /\ UNCHANGED notPipe

\* Lines 198, 199, 218 and 133-136: process_dataset is entered.
CallProcessDataset ==
    /\ main_pc = "call" /\ calls # <<>>
    /\ job' = Head(calls) /\ calls' = Tail(calls)
    /\ data' = rows_of(Head(calls), csv_len)
    /\ task' = [r \in Range(data') |-> "new"]
    /\ submitted' = 0 /\ collected' = {} /\ results' = <<>>
    /\ output_dir' = {} /\ db_files' = {} /\ cmd_failed' = FALSE
    /\ proc_pc' = "submit" /\ main_pc' = "process"
    /\ UNCHANGED <<datasets_to_process, dataset_name, csv_len, malformed,
                   crash, returned, fastas>>
    /\ UNCHANGED notPipe

\* Line 138: one executor.submit of the list comprehension.
Submit ==
    /\ main_pc = "process" /\ proc_pc = "submit" /\ submitted < Len(data)
    /\ task' = [task EXCEPT ![data[submitted + 1]] = "queued"]
    /\ submitted' = submitted + 1
    /\ UNCHANGED <<datasets_to_process, dataset_name, csv_len, malformed,
                   calls, main_pc, crash, returned, job, proc_pc, data,
                   collected, results, output_dir, db_files, fastas, cmd_failed>>
    /\ UNCHANGED notPipe

\* Line 139: the list of futures is complete; as_completed starts.
SubmitDone ==
    /\ main_pc = "process" /\ proc_pc = "submit" /\ submitted = Len(data)
    /\ proc_pc' = "collect"
    /\ UNCHANGED <<datasets_to_process, dataset_name, csv_len, malformed,
                   calls, main_pc, crash, returned, job, data, submitted,
                   task, collected, results, output_dir, db_files, fastas,
                   cmd_failed>>
    /\ UNCHANGED notPipe

\* A worker thread takes a queued call and runs lines 66-71, which are
\* outside the try: on a row they cannot read the call ends with their
\* exception.
StartTask(r) ==
    /\ main_pc = "process" /\ task[r] = "queued"
    /\ WorkerFree(busy_workers)
    /\ task' = [task EXCEPT ![r] = IF r \in malformed THEN "raised" ELSE "fetch"]
    /\ UNCHANGED <<datasets_to_process, dataset_name, csv_len, malformed,
                   calls, main_pc, crash, returned, job, proc_pc, data,
                   submitted, collected, results, output_dir, db_files,
                   fastas, cmd_failed>>
    /\ UNCHANGED notPipe

\* Lines 75-79 with the handlers of lines 88-96: the download fails with an
\* HTTP error or another exception and the call returns a None record, or
\* the body is written to output_dir.
FetchOutcomes == {"ok", "HTTPError", "error"}

Fetch(r) ==
    /\ main_pc = "process" /\ task[r] = "fetch"
    /\ \E o \in FetchOutcomes :
          IF o = "ok"
          THEN /\ output_dir' = output_dir \cup {<<"raw", r>>}
               /\ task' = [task EXCEPT ![r] = "trim"]
          ELSE /\ task' = [task EXCEPT ![r] = "None"]
               /\ UNCHANGED output_dir
    /\ UNCHANGED <<datasets_to_process, dataset_name, csv_len, malformed,
                   calls, main_pc, crash, returned, job, proc_pc, data,
                   submitted, collected, results, db_files, fastas, cmd_failed>>
    /\ UNCHANGED notPipe

\* Line 82 with the handlers of lines 91-96.  trim_pdb returns the path,
\* raises ValueError after it wrote the trimmed file (line 55 comes before
\* the verification), or fails earlier with another exception.
TrimOutcomes == {"path", "ValueError", "error"}

Trim(r) ==
    /\ main_pc = "process" /\ task[r] = "trim"
    /\ \E o \in TrimOutcomes :
          /\ output_dir' = IF o = "error" THEN output_dir
                           ELSE output_dir \cup {<<"trimmed", r>>}
          /\ task' = [task EXCEPT ![r] = IF o = "path" THEN "remove" ELSE "None"]
    /\ UNCHANGED <<datasets_to_process, dataset_name, csv_len, malformed,
                   calls, main_pc, crash, returned, job, proc_pc, data,
                   submitted, collected, results, db_files, fastas, cmd_failed>>
    /\ UNCHANGED notPipe

RemoveOriginal_trimmedFile(r) ==
    /\ main_pc = "process" /\ task[r] = "remove"
    /\ output_dir' = output_dir \ {<<"trimmed", r>>}
    /\ task' = [task EXCEPT ![r] = "ok"]
    /\ UNCHANGED <<datasets_to_process, dataset_name, csv_len, malformed,
                   calls, main_pc, crash, returned, job, proc_pc, data,
                   submitted, collected, results, db_files, fastas, cmd_failed>>
    /\ UNCHANGED notPipe

\* Lines 85-87: the untrimmed file is removed and the record returned.
RemoveOriginal(r) ==
    /\ main_pc = "process" /\ task[r] = "remove"
    /\ output_dir' = output_dir \ {<<"raw", r>>}
    /\ task' = [task EXCEPT ![r] = "ok"]
    /\ UNCHANGED <<datasets_to_process, dataset_name, csv_len, malformed,
                   calls, main_pc, crash, returned, job, proc_pc, data,
                   submitted, collected, results, db_files, fastas, cmd_failed>>
    /\ UNCHANGED notPipe

\* The record a finished call returned (lines 87, 90, 93, 96).
record_of(r) ==
    [sequence_id |-> r, pdb_file |-> IF task[r] = "ok" THEN "trimmed" ELSE "None"]

\* Lines 139-141: as_completed yields a finished future, each one once;
\* future.result() returns the record or raises the call's exception, which
\* leaves the with block.
Collect(r) ==
    /\ main_pc = "process" /\ proc_pc = "collect"
    /\ r \notin collected /\ task[r] \in Finished
    /\ collected' = collected \cup {r}
    /\ IF task[r] = "raised"
       THEN proc_pc' = "shutdown" /\ UNCHANGED results
       ELSE results' = Append(results, record_of(r)) /\ UNCHANGED proc_pc
    /\ UNCHANGED <<datasets_to_process, dataset_name, csv_len, malformed,
                   calls, main_pc, crash, returned, job, data, submitted,
                   task, output_dir, db_files, fastas, cmd_failed>>
    /\ UNCHANGED notPipe

\* as_completed is exhausted and the with block ends.
CollectDone ==
    /\ main_pc = "process" /\ proc_pc = "collect"
    /\ collected = Range(data)
    /\ proc_pc' = "csv"
    /\ UNCHANGED <<datasets_to_process, dataset_name, csv_len, malformed,
                   calls, main_pc, crash, returned, job, data, submitted,
                   task, collected, results, output_dir, db_files, fastas,
                   cmd_failed>>
    /\ UNCHANGED notPipe

\* The with block left by an exception: __exit__ is shutdown(wait=True),
\* which waits for every call, then the exception leaves process_dataset and
\* main.
ShutdownRaise ==
    /\ main_pc = "process" /\ proc_pc = "shutdown"
    /\ \A r \in Range(data) : task[r] \in Finished
    /\ proc_pc' = "idle" /\ main_pc' = "crashed" /\ crash' = "row"
    /\ UNCHANGED <<datasets_to_process, dataset_name, csv_len, malformed,
                   calls, returned, job, data, submitted, task, collected,
                   results, output_dir, db_files, fastas, cmd_failed>>
    /\ UNCHANGED notPipe

\* Lines 143-147: the results are written to output_dir.
WriteCsv ==
    /\ main_pc = "process" /\ proc_pc = "csv"
    /\ output_dir' = output_dir \cup {<<"csv", 0>>}
    /\ proc_pc' = "createdb"
    /\ UNCHANGED <<datasets_to_process, dataset_name, csv_len, malformed,
                   calls, main_pc, crash, returned, job, data, submitted,
                   task, collected, results, db_files, fastas, cmd_failed>>
    /\ UNCHANGED notPipe

\* run_command (lines 118-124) on a foldseek command: the command exits 0
\* having written its outputs, or exits non-zero, run_command raises and the
\* handler of line 155 prints.  What foldseek writes is outside this
\* repository: createdb writes the _h and _ss files the next commands read,
\* and may or may not write _a3m; a command that fails may have written any
\* of its files.
CreatedbFiles == {"_h", "_ss"}
CreatedbMaybe == {"_a3m"}

RunCreatedb ==
    /\ main_pc = "process" /\ proc_pc = "createdb"
    /\ \E ok \in BOOLEAN :
          IF ok
          THEN /\ \E extra \in SUBSET CreatedbMaybe :
                     db_files' = db_files \cup CreatedbFiles \cup extra
               /\ proc_pc' = "lndb" /\ UNCHANGED cmd_failed
          ELSE /\ \E part \in SUBSET (CreatedbFiles \cup CreatedbMaybe) :
                     db_files' = db_files \cup part
               /\ proc_pc' = "cleanup" /\ cmd_failed' = TRUE
    /\ UNCHANGED <<datasets_to_process, dataset_name, csv_len, malformed,
                   calls, main_pc, crash, returned, job, data, submitted,
                   task, collected, results, output_dir, fastas>>
    /\ UNCHANGED notPipe

\* Line 151: foldseek lndb query_db_h query_db_ss_h
RunLndb ==
    /\ main_pc = "process" /\ proc_pc = "lndb"
    /\ \E ok \in BOOLEAN :
          IF ok
          THEN /\ db_files' = db_files \cup {"_ss_h"}
               /\ proc_pc' = "convert2fasta" /\ UNCHANGED cmd_failed
          ELSE /\ proc_pc' = "cleanup" /\ cmd_failed' = TRUE
               /\ UNCHANGED db_files
    /\ UNCHANGED <<datasets_to_process, dataset_name, csv_len, malformed,
                   calls, main_pc, crash, returned, job, data, submitted,
                   task, collected, results, output_dir, fastas>>
    /\ UNCHANGED notPipe

\* Lines 152-153: foldseek convert2fasta query_db_ss query_db_ss_fasta
RunConvert2fasta ==
    /\ main_pc = "process" /\ proc_pc = "convert2fasta"
    /\ \E ok \in BOOLEAN :
          IF ok
          THEN fastas' = fastas \cup {job} /\ UNCHANGED cmd_failed
          ELSE cmd_failed' = TRUE /\ UNCHANGED fastas
    /\ proc_pc' = "cleanup"
    /\ UNCHANGED <<datasets_to_process, dataset_name, csv_len, malformed,
                   calls, main_pc, crash, returned, job, data, submitted,
                   task, collected, results, output_dir, db_files>>
    /\ UNCHANGED notPipe

\* Lines 159-162: os.remove of four files in this order; the first one that
\* does not exist raises FileNotFoundError, which nothing catches.
RemovedSuffixes == <<"_a3m", "_ss", "_ss_h", "_h">>

RECURSIVE RemoveInOrder(_, _)
RemoveInOrder(sufs, present) ==
    IF sufs = <<>> THEN [files |-> present, raised |-> FALSE]
    ELSE IF Head(sufs) \notin present THEN [files |-> present, raised |-> TRUE]
    ELSE RemoveInOrder(Tail(sufs), present \ {Head(sufs)})

RemoveDbFiles ==
    /\ main_pc = "process" /\ proc_pc = "cleanup"
    /\ LET out == RemoveInOrder(RemovedSuffixes, db_files)
       IN  /\ db_files' = out.files
           /\ IF out.raised
              THEN proc_pc' = "idle" /\ main_pc' = "crashed" /\ crash' = "cleanup"
              ELSE proc_pc' = "clear_dir" /\ UNCHANGED <<main_pc, crash>>
    /\ UNCHANGED <<datasets_to_process, dataset_name, csv_len, malformed,
                   calls, returned, job, data, submitted, task, collected,
                   results, output_dir, fastas, cmd_failed>>
    /\ UNCHANGED notPipe

ClearOutputDir_structuresOnly ==
    /\ main_pc = "process" /\ proc_pc = "clear_dir"
    /\ output_dir' = { f \in output_dir : f[1] = "csv" }
    /\ proc_pc' = "idle" /\ main_pc' = "call"
    /\ returned' = Append(returned, job)
    /\ UNCHANGED <<datasets_to_process, dataset_name, csv_len, malformed,
                   calls, crash, job, data, submitted, task, collected,
                   results, db_files, fastas, cmd_failed>>
    /\ UNCHANGED notPipe

\* Lines 163-165: every file of output_dir is removed; process_dataset
\* returns.
ClearOutputDir ==
    /\ main_pc = "process" /\ proc_pc = "clear_dir"
    /\ output_dir' = {}
    /\ proc_pc' = "idle" /\ main_pc' = "call"
    /\ returned' = Append(returned, job)
    /\ UNCHANGED <<datasets_to_process, dataset_name, csv_len, malformed,
                   calls, crash, job, data, submitted, task, collected,
                   results, db_files, fastas, cmd_failed>>
    /\ UNCHANGED notPipe

\* Lines 201-211: after the two Train calls the two FASTA files are merged.
\* The merged file is opened for writing first; a half that is missing
\* raises FileNotFoundError.
MergeTrain ==
    /\ main_pc = "call" /\ calls = <<>> /\ dataset_name = "Train"
    /\ IF {"Train_first", "Train_second"} \subseteq fastas
       THEN /\ fastas' = (fastas \cup {"Train"}) \ {"Train_first", "Train_second"}
            /\ main_pc' = "loop" /\ UNCHANGED crash
       ELSE /\ fastas' = fastas \cup {"Train"}
            /\ main_pc' = "crashed" /\ crash' = "merge"
    /\ UNCHANGED <<datasets_to_process, dataset_name, csv_len, malformed,
                   calls, returned>>
    /\ UNCHANGED procVars
    /\ UNCHANGED notPipe

\* Line 181: the loop goes on to the next csv file.
NextDataset ==
    /\ main_pc = "call" /\ calls = <<>> /\ dataset_name # "Train"
    /\ main_pc' = "loop"
    /\ UNCHANGED <<datasets_to_process, dataset_name, csv_len, malformed,
                   calls, crash, returned, fastas>>
    /\ UNCHANGED procVars
    /\ UNCHANGED notPipe

\* The loop of line 181 ends and main returns.
MainReturn ==
    /\ main_pc = "loop" /\ datasets_to_process = <<>>
    /\ main_pc' = "done"
    /\ UNCHANGED <<datasets_to_process, dataset_name, csv_len, malformed,
                   calls, crash, returned, fastas>>
    /\ UNCHANGED procVars
    /\ UNCHANGED notPipe

PipeNext ==
    \/ ReadCsv
    \/ CallProcessDataset
    \/ Submit
    \/ SubmitDone
    \/ \E r \in DOMAIN task : StartTask(r)
    \/ \E r \in DOMAIN task : Fetch(r)
    \/ \E r \in DOMAIN task : Trim(r)
    \/ \E r \in DOMAIN task : RemoveOriginal(r)
    \/ \E r \in DOMAIN task : Collect(r)
    \/ CollectDone
    \/ ShutdownRaise
    \/ WriteCsv
    \/ RunCreatedb
    \/ RunLndb
    \/ RunConvert2fasta
    \/ RemoveDbFiles
    \/ ClearOutputDir
    \/ MergeTrain
    \/ NextDataset
    \/ MainReturn

----------------------------------------------------------------------------
(* process_dataset, lines 137-141: the pool, with its calls counted *)
(* instead of named, so that more rows than worker threads can be run   *)

PoolIdle ==
    /\ pool_pc = "idle" /\ n_submitted = 0 /\ n_queued = 0 /\ n_running = 0
    /\ n_returned = 0 /\ n_raised = 0 /\ n_collected = 0

\* Line 137: the pool is created; data holds NTasks rows.
PoolInit ==
    /\ pool_pc = "submit" /\ n_submitted = 0 /\ n_queued = 0 /\ n_running = 0
    /\ n_returned = 0 /\ n_raised = 0 /\ n_collected = 0

\* Line 138: executor.submit puts one more call in the queue.
PoolSubmit ==
    /\ pool_pc = "submit" /\ n_submitted < NTasks
    /\ n_submitted' = n_submitted + 1 /\ n_queued' = n_queued + 1
    /\ UNCHANGED <<pool_pc, n_running, n_returned, n_raised, n_collected>>
    /\ UNCHANGED notPool

\* Line 139: the list comprehension is complete; as_completed starts.
PoolSubmitDone ==
    /\ pool_pc = "submit" /\ n_submitted = NTasks
    /\ pool_pc' = "collect"
    /\ UNCHANGED <<n_submitted, n_queued, n_running, n_returned, n_raised,
                   n_collected>>
    /\ UNCHANGED notPool

\* A worker thread takes a call from the queue.
PoolStart ==
    /\ pool_pc \in {"submit", "collect", "shutdown"}
    /\ n_queued > 0 /\ WorkerFree(n_running)
    /\ n_queued' = n_queued - 1 /\ n_running' = n_running + 1
    /\ UNCHANGED <<pool_pc, n_submitted, n_returned, n_raised, n_collected>>
    /\ UNCHANGED notPool

\* download_and_trim_pdb returns its record, or ends with an exception
\* (lines 66-71).
PoolFinish ==
    /\ pool_pc \in {"submit", "collect", "shutdown"}
    /\ n_running > 0
    /\ n_running' = n_running - 1
    /\ \E raises \in BOOLEAN :
          IF raises THEN n_raised' = n_raised + 1 /\ UNCHANGED n_returned
          ELSE n_returned' = n_returned + 1 /\ UNCHANGED n_raised
    /\ UNCHANGED <<pool_pc, n_submitted, n_queued, n_collected>>
    /\ UNCHANGED notPool

\* Lines 139-141: a finished future is yielded and its record appended.
PoolCollect ==
    /\ pool_pc = "collect" /\ n_collected < n_returned
    /\ n_collected' = n_collected + 1
    /\ UNCHANGED <<pool_pc, n_submitted, n_queued, n_running, n_returned,
                   n_raised>>
    /\ UNCHANGED notPool

\* Line 140: future.result() raises the call's exception; the with block
\* is left and __exit__ runs shutdown(wait=True).
PoolCollectRaise ==
    /\ pool_pc = "collect" /\ n_raised > 0
    /\ pool_pc' = "shutdown"
    /\ UNCHANGED <<n_submitted, n_queued, n_running, n_returned, n_raised,
                   n_collected>>
    /\ UNCHANGED notPool

\* as_completed is exhausted; __exit__ runs shutdown(wait=True).
PoolCollectDone ==
    /\ pool_pc = "collect" /\ n_collected = NTasks
    /\ pool_pc' = "shutdown"
    /\ UNCHANGED <<n_submitted, n_queued, n_running, n_returned, n_raised,
                   n_collected>>
    /\ UNCHANGED notPool

\* shutdown(wait=True) returns once the worker threads have emptied the
\* queue and ended; it cancels nothing.
PoolShutdown ==
    /\ pool_pc = "shutdown" /\ n_queued = 0 /\ n_running = 0
    /\ pool_pc' = "left"
    /\ UNCHANGED <<n_submitted, n_queued, n_running, n_returned, n_raised,
                   n_collected>>
    /\ UNCHANGED notPool

PoolNext ==
    \/ PoolSubmit
    \/ PoolSubmitDone
    \/ PoolStart
    \/ PoolFinish
    \/ PoolCollect
    \/ PoolCollectRaise
    \/ PoolCollectDone
    \/ PoolShutdown

----------------------------------------------------------------------------
(* run_ann_tests.py: run_script_with_combinations *)

\* The values a parameter list may hold.
ParamValues == {1, 2}

\* dropout_values is any list of up to MaxValues values, repeats included;
\* the five other lists hold one or two values.
DropoutLists == SeqsUpTo(ParamValues, MaxValues)
OtherLists == { <<1>>, <<1, 2>> }

\* combinations_to_skip: None (made [] by lines 20-21) or a list of tuples.
SkipChoices ==
    SUBSET { <<1, 1, 1, 1, 1, 1>>, <<2, 1, 1, 1, 1, 2>>, <<1, 2, 1, 2, 1, 2>> }

\* itertools.product: nested loops, the first list outermost.
RECURSIVE PrefixAll(_, _)
PrefixAll(x, tuples) ==
    IF tuples = <<>> THEN <<>>
    ELSE << <<x>> \o Head(tuples) >> \o PrefixAll(x, Tail(tuples))

RECURSIVE ProductWith(_, _)
ProductWith(xs, tuples) ==
    IF xs = <<>> THEN <<>>
    ELSE PrefixAll(Head(xs), tuples) \o ProductWith(Tail(xs), tuples)

RECURSIVE product(_)
product(lists) ==
    IF lists = <<>> THEN << <<>> >>
    ELSE ProductWith(Head(lists), product(Tail(lists)))

Skipped_byPrefix(combination, skip) == SubSeq(combination, 1, 3) \in skip

\* Line 30: the tuple is in combinations_to_skip.
Skipped(combination, skip) == combination \in skip

\* os.system returns the exit status of the command.
ExitStatuses == {0, 1}

ComboIdle ==
    /\ param_values = <<>> /\ combinations_to_skip = {} /\ combinations = <<>>
    /\ combo_i = 0 /\ runs = <<>> /\ nonzero_seen = FALSE /\ combo_pc = "idle"

\* Lines 20-24: the function is called and the product is listed.
ComboInit ==
    /\ \E d \in DropoutLists : \E l, n, t, p, m \in OtherLists :
          param_values = <<d, l, n, t, p, m>>
    /\ combinations_to_skip \in SkipChoices
    /\ combinations = product(param_values)
    /\ combo_i = 0 /\ runs = <<>> /\ nonzero_seen = FALSE /\ combo_pc = "loop"

\* Lines 27-31: the next tuple is in combinations_to_skip: continue.
SkipCombination ==
    /\ combo_pc = "loop" /\ combo_i < Len(combinations)
    /\ Skipped(combinations[combo_i + 1], combinations_to_skip)
    /\ combo_i' = combo_i + 1
    /\ UNCHANGED <<param_values, combinations_to_skip, combinations, runs,
                   nonzero_seen, combo_pc>>
    /\ UNCHANGED notCombo

\* Lines 33-42: the command is built and run; its exit status is dropped.
RunCombination ==
    /\ combo_pc = "loop" /\ combo_i < Len(combinations)
    /\ ~Skipped(combinations[combo_i + 1], combinations_to_skip)
    /\ runs' = Append(runs, combinations[combo_i + 1])
    /\ \E status \in ExitStatuses : nonzero_seen' = (nonzero_seen \/ status # 0)
    /\ combo_i' = combo_i + 1
    /\ UNCHANGED <<param_values, combinations_to_skip, combinations, combo_pc>>
    /\ UNCHANGED notCombo

\* The loop of line 27 ends and the function returns.
CombinationsDone ==
    /\ combo_pc = "loop" /\ combo_i = Len(combinations)
    /\ combo_pc' = "done"
    /\ UNCHANGED <<param_values, combinations_to_skip, combinations, combo_i,
                   runs, nonzero_seen>>
    /\ UNCHANGED notCombo

ComboNext ==
    \/ SkipCombination
    \/ RunCombination
    \/ CombinationsDone

----------------------------------------------------------------------------
(* predict_embed.py: embed_sequence, get_3di_sequences, embed_3Di, main *)

\* Line 24: length = 1000
length == 1000

\* Lines 134-135: the arguments the parser defines; parse_args gives a
\* namespace with these attributes and no other.
parser_arguments == {"model", "input_type"}

InputTypes == {"AA", "AA+3Di"}

\* Row counts of Dataset.csv around the batch boundaries.
NumSeqChoices ==
    { b * length + extra : b \in 0..(MaxBatches - 1), extra \in {0, 1, length} }

\* args.<name>: AttributeError when the namespace has no such attribute.
HasAttribute(namespace, name) == name \in namespace

CommandRaises_unchecked(exit_ok) == FALSE

\* subprocess.run(..., check=True) raises CalledProcessError on a non-zero
\* exit status.
CommandRaises(exit_ok) == ~exit_ok

\* Line 56: the files of the folder whose name ends with ".pdb", in listing
\* order; the k-th is named k.
listdir_pdb(n) == [k \in 1..n |-> k]

\* Lines 89-93: spaces of the header lines become underscores.
fix_header(entry) == [entry EXCEPT !.header_spaces = FALSE]

PredIdle ==
    /\ pred_entry = "none" /\ input_type = "AA" /\ pred_pc = "idle"
    /\ num_seq = 0 /\ embed_i = 0 /\ saved = <<>> /\ pdb_files = <<>>
    /\ pdb_k = 0 /\ pdb_db = 0 /\ fasta_output = <<>> /\ combined_fasta = <<>>
    /\ cmd_ok = <<>> /\ completed = <<>> /\ pred_error = "none"

\* main is started with one of the input types, or embed_3Di is called on
\* a folder.
PredInit ==
    /\ \/ pred_entry = "main" /\ pred_pc = "main" /\ input_type \in InputTypes
       \/ pred_entry = "embed_3Di" /\ pred_pc = "embed_3Di" /\ input_type = "AA+3Di"
    /\ num_seq \in NumSeqChoices
    /\ \E n \in 0..MaxPdbFiles : pdb_files = listdir_pdb(n)
    /\ embed_i = 0 /\ saved = <<>> /\ pdb_k = 0 /\ pdb_db = 0
    /\ fasta_output = <<>> /\ combined_fasta = <<>>
    /\ cmd_ok = [k \in DOMAIN pdb_files |-> "untried"]
    /\ completed = <<>> /\ pred_error = "none"

\* Lines 138-143: both branches start with embed_sequence (lines 13-24).
CallEmbedSequence ==
    /\ pred_pc = "main" /\ input_type \in InputTypes
    /\ pred_pc' = "embed_sequence" /\ embed_i' = 0
    /\ UNCHANGED <<pred_entry, input_type, num_seq, saved, pdb_files, pdb_k,
                   pdb_db, fasta_output, combined_fasta, cmd_ok, completed,
                   pred_error>>
    /\ UNCHANGED notPred

\* Lines 25-41: one batch is embedded and saved as T5_<start / length>.
EmbedBatch ==
    /\ pred_pc = "embed_sequence" /\ embed_i < num_seq
    /\ saved' = Append(saved, embed_i \div length)
    /\ embed_i' = embed_i + length
    /\ UNCHANGED <<pred_entry, input_type, pred_pc, num_seq, pdb_files, pdb_k,
                   pdb_db, fasta_output, combined_fasta, cmd_ok, completed,
                   pred_error>>
    /\ UNCHANGED notPred

\* The while of line 25 ends; embed_sequence returns to main, which is done
\* (line 140) or goes on to line 144.
EmbedSequenceReturn ==
    /\ pred_pc = "embed_sequence" /\ embed_i >= num_seq
    /\ completed' = Append(completed, "embed_sequence")
    /\ pred_pc' = IF input_type = "AA" THEN "returned" ELSE "line144"
    /\ UNCHANGED <<pred_entry, input_type, num_seq, embed_i, saved, pdb_files,
                   pdb_k, pdb_db, fasta_output, combined_fasta, cmd_ok,
                   pred_error>>
    /\ UNCHANGED notPred

\* Line 144: embed_3Di(args.pdb_path).  The argument is evaluated first.
CallEmbed3Di ==
    /\ pred_pc = "line144"
    /\ IF HasAttribute(parser_arguments, "pdb_path")
       THEN pred_pc' = "embed_3Di" /\ UNCHANGED pred_error
       ELSE pred_pc' = "raised" /\ pred_error' = "AttributeError"
    /\ UNCHANGED <<pred_entry, input_type, num_seq, embed_i, saved, pdb_files,
                   pdb_k, pdb_db, fasta_output, combined_fasta, cmd_ok,
                   completed>>
    /\ UNCHANGED notPred

\* Lines 112-115 and 53-66: embed_3Di calls get_3di_sequences, which lists
\* the folder, raises FileNotFoundError when it holds no .pdb file and else
\* opens the combined file for writing.
ListPdbFiles ==
    /\ pred_pc = "embed_3Di"
    /\ IF pdb_files = <<>>
       THEN /\ pred_pc' = "raised" /\ pred_error' = "FileNotFoundError"
            /\ UNCHANGED <<pdb_k, combined_fasta>>
       ELSE /\ pred_pc' = "createdb" /\ pdb_k' = 1 /\ combined_fasta' = <<>>
            /\ UNCHANGED pred_error
    /\ UNCHANGED <<pred_entry, input_type, num_seq, embed_i, saved, pdb_files,
                   pdb_db, fasta_output, cmd_ok, completed>>
    /\ UNCHANGED notPred

\* Line 80: foldseek createdb pdb_file_path db_output.  db_output is the
\* same path for every file; a successful run leaves the database of this
\* file there.  CalledProcessError is caught at line 105 and the loop goes to
\* the next file.
RunCreatedbOne ==
    /\ pred_pc = "createdb" /\ pdb_k <= Len(pdb_files)
    /\ \E exit_ok \in BOOLEAN :
          /\ pdb_db' = IF exit_ok THEN pdb_files[pdb_k] ELSE pdb_db
          /\ cmd_ok' = IF exit_ok THEN cmd_ok
                       ELSE [cmd_ok EXCEPT ![pdb_k] = "createdb_failed"]
          /\ IF CommandRaises(exit_ok)
             THEN pdb_k' = pdb_k + 1 /\ UNCHANGED pred_pc
             ELSE pred_pc' = "convert2fasta" /\ UNCHANGED pdb_k
    /\ UNCHANGED <<pred_entry, input_type, num_seq, embed_i, saved, pdb_files,
                   fasta_output, combined_fasta, completed, pred_error>>
    /\ UNCHANGED notPred

\* Line 83: foldseek convert2fasta db_output fasta_output writes the entry of
\* the database, its header as foldseek prints it.
RunConvert2fastaOne ==
    /\ pred_pc = "convert2fasta"
    /\ \E exit_ok \in BOOLEAN :
          /\ cmd_ok' = [cmd_ok EXCEPT ![pdb_k] =
                           IF ~exit_ok THEN "convert_failed"
                           ELSE IF @ = "untried" THEN "ok" ELSE @]
          /\ IF exit_ok
             THEN \E sp \in BOOLEAN :
                     fasta_output' = <<[file |-> pdb_db, header_spaces |-> sp]>>
             ELSE UNCHANGED fasta_output
          /\ IF CommandRaises(exit_ok)
             THEN pdb_k' = pdb_k + 1 /\ pred_pc' = "createdb"
             ELSE pred_pc' = "append" /\ UNCHANGED pdb_k
    /\ UNCHANGED <<pred_entry, input_type, num_seq, embed_i, saved, pdb_files,
                   pdb_db, combined_fasta, completed, pred_error>>
    /\ UNCHANGED notPred

\* Lines 85-103: the header lines of fasta_output are rewritten, the file is
\* appended to the combined file and removed; rmtree(db_output) removes
\* nothing, db_output being a file prefix.
AppendToCombined ==
    /\ pred_pc = "append"
    /\ combined_fasta' =
          combined_fasta \o [k \in 1..Len(fasta_output) |-> fix_header(fasta_output[k])]
    /\ fasta_output' = <<>>
    /\ pdb_k' = pdb_k + 1 /\ pred_pc' = "createdb"
    /\ UNCHANGED <<pred_entry, input_type, num_seq, embed_i, saved, pdb_files,
                   pdb_db, cmd_ok, completed, pred_error>>
    /\ UNCHANGED notPred

\* Line 108: the loop is over and get_3di_sequences returns to embed_3Di.
Get3diReturn ==
    /\ pred_pc = "createdb" /\ pdb_k > Len(pdb_files)
    /\ pred_pc' = "embed_script"
    /\ UNCHANGED <<pred_entry, input_type, num_seq, embed_i, saved, pdb_files,
                   pdb_k, pdb_db, fasta_output, combined_fasta, cmd_ok,
                   completed, pred_error>>
    /\ UNCHANGED notPred

\* Lines 117-128: the embedding script is run; its failure is caught and
\* printed; embed_3Di returns.
RunEmbedScript ==
    /\ pred_pc = "embed_script"
    /\ \E exit_ok \in BOOLEAN :
          completed' = Append(completed,
                              IF exit_ok THEN "embed_3Di" ELSE "embed_3Di failed")
    /\ pred_pc' = "returned"
    /\ UNCHANGED <<pred_entry, input_type, num_seq, embed_i, saved, pdb_files,
                   pdb_k, pdb_db, fasta_output, combined_fasta, cmd_ok,
                   pred_error>>
    /\ UNCHANGED notPred

PredNext ==
    \/ CallEmbedSequence
    \/ EmbedBatch
    \/ EmbedSequenceReturn
    \/ CallEmbed3Di
    \/ ListPdbFiles
    \/ RunCreatedbOne
    \/ RunConvert2fastaOne
    \/ AppendToCombined
    \/ Get3diReturn
    \/ RunEmbedScript

----------------------------------------------------------------------------
(* ann_TM_Vec.py: bm_generator, lines 108-129, driven by model.fit, line 181 *)

\* Python indexing of a list: the first element has index 0.
At(list, i) == list[i + 1]

\* LabelEncoder (lines 93-98): the labels are 0 .. num_classes - 1.
Labels(nc) == 0..(nc - 1)

WrapCursor_early(v, n) == IF v >= n - 1 THEN 0 ELSE v

\* Lines 117-118: the cursor goes back to 0 when it is at len(X_t).
WrapCursor(v, n) == IF v = n THEN 0 ELSE v

\* Lines 121-122: np.zeros((num_classes)) with the entry of the label set.
y_enc(label, nc) == [[c \in Labels(nc) |-> 0] EXCEPT ![label] = 1]

\* Line 181: steps_per_epoch = math.ceil(len(X_train) / bs).
steps_per_epoch(n, b) == (n + b - 1) \div b

GenIdle ==
    /\ X_t = <<>> /\ y_t = <<>> /\ num_classes = 0 /\ batch_size = 0
    /\ val = 0 /\ gen_j = 0 /\ X_batch = <<>> /\ y_batch = <<>>
    /\ gen_pc = "idle" /\ stream = <<>> /\ fit_step = 0 /\ epoch = 0

\* Lines 178 and 109: the generator is made once over a non-empty training
\* set, whose samples are named by their rows here; its body has not run.
GenInit ==
    /\ \E n \in 1..MaxSamples :
          /\ X_t = [i \in 1..n |-> i]
          /\ num_classes \in 1..MaxClasses
          /\ y_t \in [1..n -> Labels(num_classes)]
    /\ batch_size \in 1..MaxBatchSize
    /\ val = 0 /\ gen_j = 0 /\ X_batch = <<>> /\ y_batch = <<>>
    /\ gen_pc = "suspended" /\ stream = <<>> /\ fit_step = 0 /\ epoch = 0

\* Line 181 asks for the next batch; lines 111-113 start an empty one.
NextBatch ==
    /\ gen_pc = "suspended"
    /\ epoch < MaxEpochs
    /\ fit_step < steps_per_epoch(Len(X_t), batch_size)
    /\ X_batch' = <<>> /\ y_batch' = <<>> /\ gen_j' = 0
    /\ gen_pc' = "fill"
    /\ UNCHANGED <<X_t, y_t, num_classes, batch_size, val, stream, fit_step,
                   epoch>>
    /\ UNCHANGED notGen

\* Lines 115-124: one turn of the for loop.
AppendSample ==
    /\ gen_pc = "fill" /\ gen_j < batch_size
    /\ LET v == WrapCursor(val, Len(X_t))
           x == At(X_t, v)
           y == y_enc(At(y_t, v), num_classes)
       IN /\ X_batch' = Append(X_batch, x)
          /\ y_batch' = Append(y_batch, y)
          /\ stream' = Append(stream, <<x, y>>)
          /\ val' = v + 1
    /\ gen_j' = gen_j + 1
    /\ UNCHANGED <<X_t, y_t, num_classes, batch_size, gen_pc, fit_step, epoch>>
    /\ UNCHANGED notGen

\* Lines 126-129: the batch is yielded; the generator is suspended with its
\* cursor kept.
YieldBatch ==
    /\ gen_pc = "fill" /\ gen_j = batch_size
    /\ gen_pc' = "suspended"
    /\ fit_step' = fit_step + 1
    /\ UNCHANGED <<X_t, y_t, num_classes, batch_size, val, gen_j, X_batch,
                   y_batch, stream, epoch>>
    /\ UNCHANGED notGen

\* Line 181: after steps_per_epoch batches the epoch ends; the next epoch
\* takes its batches from the same generator object.
EndEpoch ==
    /\ gen_pc = "suspended"
    /\ fit_step = steps_per_epoch(Len(X_t), batch_size)
    /\ epoch < MaxEpochs
    /\ epoch' = epoch + 1 /\ fit_step' = 0
    /\ UNCHANGED <<X_t, y_t, num_classes, batch_size, val, gen_j, X_batch,
                   y_batch, gen_pc, stream>>
    /\ UNCHANGED notGen

GenNext == NextBatch \/ AppendSample \/ YieldBatch \/ EndEpoch

----------------------------------------------------------------------------
(* Specifications *)

InitTrim == TrimInit /\ PipeIdle /\ PoolIdle /\ ComboIdle /\ PredIdle /\ GenIdle

SpecTrim == InitTrim /\ [][TrimNext]_vars

Init == PipeInit /\ TrimIdle /\ PoolIdle /\ ComboIdle /\ PredIdle /\ GenIdle

Spec == Init /\ [][PipeNext]_vars

InitPool == PoolInit /\ TrimIdle /\ PipeIdle /\ ComboIdle /\ PredIdle /\ GenIdle

\* The worker threads and the main thread are scheduled fairly, and every
\* download returns.
SpecPool ==
    /\ InitPool /\ [][PoolNext]_vars
    /\ WF_vars(PoolSubmit) /\ WF_vars(PoolSubmitDone)
    /\ WF_vars(PoolStart) /\ WF_vars(PoolFinish)

InitCombos == ComboInit /\ TrimIdle /\ PipeIdle /\ PoolIdle /\ PredIdle /\ GenIdle

SpecCombos == InitCombos /\ [][ComboNext]_vars

InitPredict == PredInit /\ TrimIdle /\ PipeIdle /\ PoolIdle /\ ComboIdle /\ GenIdle

SpecPredict == InitPredict /\ [][PredNext]_vars

InitGen == GenInit /\ TrimIdle /\ PipeIdle /\ PoolIdle /\ ComboIdle /\ PredIdle

SpecGen == InitGen /\ [][GenNext]_vars

----------------------------------------------------------------------------
(* Claims about trim_pdb *)

RefWithoutX == SelectSeq(sequence, LAMBDA x : x # "X")

\* The chains of the trimmed file that the verification reads.
ReadChains == { e \in 1..Len(trimmed) :
                  trimmed[e].model = model_id /\ trimmed[e].chain = chain_id }

ReadBack(e) ==
    LET std == SelectSeq(trimmed[e].residues, LAMBDA r : ~r.het)
    IN  [k \in 1..Len(std) |-> std[k].res]

\* C1: trim_pdb returns the trimmed path only when the sequence read back
\* from the trimmed file (standard residues of the requested chain and
\* model) equals the reference sequence without its 'X'; in every other case
\* it raises ValueError.
C1_TrimVerified ==
    trim_pc = "done" =>
        /\ trim_result \in {"path", "ValueError"}
        /\ trim_result = "path" <=>
              /\ ReadChains # {}
              /\ \A e \in ReadChains : ReadBack(e) = RefWithoutX

\* A path is returned for a reference sequence that holds an 'X', from a
\* chain that lost residues in the trimming.
C1_Witness ==
    /\ trim_pc = "done" /\ trim_result = "path"
    /\ \E k \in 1..Len(sequence) : sequence[k] = "X"
    /\ Cardinality(seq_residues) < Len(structure[1].residues)

\* The residues the scan may keep: those of the requested chain and model.
Requested == { e \in 1..Len(structure) :
                 structure[e].model = model_id /\ structure[e].chain = chain_id }

\* The kept residues of chain e, in chain order.
KeptOf(e) ==
    LET n    == Len(structure[e].residues)
        ks   == { r \in 1..n : <<e, r>> \in seq_residues }
        nth(k) == CHOOSE r \in ks : Cardinality({q \in ks : q < r}) = k - 1
    IN  [k \in 1..Cardinality(ks) |-> structure[e].residues[nth(k)].res]

RECURSIVE IsSubsequence(_, _)
IsSubsequence(s, t) ==
    IF s = <<>> THEN TRUE
    ELSE IF t = <<>> THEN FALSE
    ELSE \/ Head(s) = Head(t) /\ IsSubsequence(Tail(s), Tail(t))
         \/ IsSubsequence(s, Tail(t))

LettersOf(e) == [k \in 1..Len(structure[e].residues) |-> structure[e].residues[k].res]

\* C10: at every step of the scan 0 <= seq_index <= len(sequence), as many
\* residues are kept as seq_index says, all of them in the requested chain of
\* the requested model, spelling sequence[0:seq_index] in chain order; and a
\* reference sequence that is a subsequence of the chain's letters is matched
\* to its end.
C10_ScanInvariant ==
    trim_pc # "idle" =>
        /\ seq_index \in 0..Len(sequence)
        /\ Cardinality(seq_residues) = seq_index
        /\ \A x \in seq_residues : x[1] \in Requested
        /\ \A e \in Requested :
              (\E x \in seq_residues : x[1] = e) =>
                  KeptOf(e) = SubSeq(sequence, 1, seq_index)
        /\ (trim_pc # "scan" /\ \E e \in Requested : IsSubsequence(sequence, LettersOf(e)))
              => seq_index = Len(sequence)

\* The scan has ended having matched a reference sequence of two letters and
\* passed over a residue of the chain.
C10_Witness ==
    /\ trim_pc = "save" /\ Len(sequence) >= 2 /\ seq_index = Len(sequence)
    /\ Len(untrimmed_sequence) > seq_index

----------------------------------------------------------------------------
(* Claims about download_and_trim_pdb, process_dataset and main *)

\* C2: every failure while one row is handled is caught inside
\* download_and_trim_pdb and gives a record with pdb_file = None: no call
\* ends with an exception and none reaches process_dataset.
C2_EveryFailureCaught ==
    /\ \A r \in DOMAIN task : task[r] # "raised"
    /\ crash # "row"

\* C3: when a foldseek command of process_dataset exits non-zero the failure
\* is caught, process_dataset returns and main goes on: main does not end
\* with an exception.
C3_FoldseekFailureSurvived ==
    cmd_failed => main_pc # "crashed"

\* The with block of lines 137-141 has been left, by its end or by an
\* exception.
PoolBlockLeft ==
    \/ proc_pc \in {"csv", "createdb", "lndb", "convert2fasta", "cleanup", "clear_dir"}
    \/ crash = "row"

\* C4: once the pool block of process_dataset is left, the results list
\* holds exactly one record per input row, whatever the completion order.
C4_OneRecordPerRow ==
    PoolBlockLeft =>
        /\ Len(results) = Len(data)
        /\ \A r \in Range(data) :
              Cardinality({k \in 1..Len(results) : results[k].sequence_id = r}) = 1

\* C9: when foldseek createdb starts on output_dir, no structure file of a
\* row recorded with pdb_file = None is in output_dir.
C9_MissingRowsSkipped ==
    proc_pc = "createdb" =>
        \A k \in 1..Len(results) :
            results[k].pdb_file = "None" =>
                /\ <<"raw", results[k].sequence_id>> \notin output_dir
                /\ <<"trimmed", results[k].sequence_id>> \notin output_dir

----------------------------------------------------------------------------
(* Claims about the pool *)

PoolSafe ==
    /\ n_running <= max_workers
    /\ (n_collected > 0 \/ pool_pc \in {"collect", "shutdown", "left"})
          => n_submitted = NTasks
    /\ n_queued + n_running + n_returned + n_raised = n_submitted

\* C5: all rows are submitted before the first result is collected, at most
\* 20 calls execute at any moment, and no submitted call is cancelled: each
\* one is queued, running or finished, and in the end all have finished.
C5_PoolBounded ==
    /\ []PoolSafe
    /\ <>[](n_returned + n_raised = NTasks)

\* All worker threads are busy while calls wait in the queue.
C5_Witness ==
    n_running = max_workers /\ n_queued > 0 /\ n_returned + n_raised > 0

----------------------------------------------------------------------------
(* Claims about run_script_with_combinations *)

RECURSIVE LenProduct(_, _)
LenProduct(lists, j) ==
    IF j > Len(lists) THEN 1 ELSE Len(lists[j]) * LenProduct(lists, j + 1)

\* The k-th tuple (from 0) of the Cartesian product in product order: the
\* last list varies fastest.
NthTuple(lists, k) ==
    [j \in 1..Len(lists) |->
        lists[j][((k \div LenProduct(lists, j + 1)) % Len(lists[j])) + 1]]

\* The tuples among the first n of the product that are not to be skipped.
RECURSIVE Expected(_, _, _)
Expected(lists, skip, n) ==
    IF n = 0 THEN <<>>
    ELSE LET t == NthTuple(lists, n - 1)
         IN  Expected(lists, skip, n - 1) \o (IF t \in skip THEN <<>> ELSE <<t>>)

\* C6: the script is run once for each tuple of the Cartesian product of the
\* six lists that is not in combinations_to_skip, in product order, never for
\* a skipped tuple, and the loop goes through the whole product whatever the
\* exit statuses.
C6_RunsAreProduct ==
    combo_pc # "idle" =>
        /\ runs = Expected(param_values, combinations_to_skip, combo_i)
        /\ \A k \in 1..Len(runs) : runs[k] \notin combinations_to_skip
        /\ combo_pc = "done" => combo_i = LenProduct(param_values, 1)

\* The function returned after a run exited non-zero, a tuple was skipped
\* and at least three were run.
C6_Witness ==
    /\ combo_pc = "done" /\ nonzero_seen /\ Len(runs) >= 3
    /\ Len(runs) < Len(combinations)

----------------------------------------------------------------------------
(* Claims about predict_embed.py *)

\* The files both of whose foldseek commands exited with status 0, in
\* listing order.
BothSucceeded == SelectSeq(pdb_files, LAMBDA f : cmd_ok[f] = "ok")

C8_MainDispatch ==
    (pred_entry = "main" /\ pred_pc \in {"returned", "raised"}) =>
        /\ pred_pc = "returned"
        /\ input_type = "AA" => completed = <<"embed_sequence">>
        /\ input_type = "AA+3Di" => completed = <<"embed_sequence", "embed_3Di">>

----------------------------------------------------------------------------
(* Claims about the order of process_dataset and the files of a row *)

Indexing == {"createdb", "lndb", "convert2fasta", "cleanup", "clear_dir"}

\* While the foldseek commands run, every call has finished and the results
\* CSV is in output_dir.
IndexAfterFetch ==
    proc_pc \in Indexing =>
        /\ \A r \in Range(data) : task[r] \in Finished
        /\ collected = Range(data)
        /\ <<"csv", 0>> \in output_dir

\* createdb is entered from the CSV step, lndb after a createdb that exited
\* 0, convert2fasta after an lndb that exited 0, the FASTA file appears only
\* by a convert2fasta that exited 0, and a return leaves output_dir empty.
IndexStep ==
    /\ (proc_pc' = "createdb" /\ proc_pc # "createdb") => proc_pc = "csv"
    /\ (proc_pc' = "lndb" /\ proc_pc # "lndb") =>
          /\ proc_pc = "createdb" /\ ~cmd_failed'
          /\ CreatedbFiles \subseteq db_files'
    /\ (proc_pc' = "convert2fasta" /\ proc_pc # "convert2fasta") =>
          /\ proc_pc = "lndb" /\ ~cmd_failed' /\ "_ss_h" \in db_files'
    /\ (main_pc = "process" /\ fastas' # fastas) =>
          /\ proc_pc = "convert2fasta" /\ ~cmd_failed'
          /\ fastas' = fastas \cup {job}
    /\ (main_pc = "process" /\ cmd_failed') => proc_pc' \notin {"lndb", "convert2fasta"}
    /\ returned' # returned =>
          /\ returned' = Append(returned, job) /\ proc_pc = "clear_dir"
          /\ output_dir' = {}

\* C11: foldseek createdb starts only after every download_and_trim_pdb call
\* has finished and the results CSV has been written; the commands run in
\* the order createdb, lndb, convert2fasta, each only if the previous one
\* succeeded; and when process_dataset returns output_dir holds no files.
C11_LinearOrder == []IndexAfterFetch /\ [][IndexStep]_vars

\* process_dataset has returned after its three commands succeeded, with a
\* row recorded as missing and a row recorded with its trimmed file.
C11_Witness ==
    /\ main_pc = "call" /\ returned # <<>> /\ job \in fastas /\ ~cmd_failed
    /\ output_dir = {}
    /\ \E a, b \in 1..Len(results) :
          results[a].pdb_file = "None" /\ results[b].pdb_file = "trimmed"

\* A returned path stands for a trimmed file in output_dir whose untrimmed
\* download is gone, until process_dataset empties the directory.
ReturnedFilesInPlace ==
    (main_pc = "process" /\ proc_pc # "idle") =>
        \A r \in DOMAIN task :
            task[r] = "ok" =>
                /\ <<"raw", r>> \notin output_dir
                /\ <<"trimmed", r>> \in output_dir

\* A call removes its untrimmed file only in the step that follows a
\* trim_pdb that returned, and only its own file.
RemovedAfterVerification ==
    (main_pc = "process" /\ proc_pc' # "idle") =>
        \A r \in DOMAIN task :
            (<<"raw", r>> \in output_dir /\ <<"raw", r>> \notin output_dir') =>
                /\ task[r] = "remove" /\ task'[r] = "ok"
                /\ <<"trimmed", r>> \in output_dir'

\* C12: when download_and_trim_pdb returns a path for a row, the untrimmed
\* file of the row has been removed and the trimmed file is in output_dir;
\* the untrimmed file is removed only after trimming and verification
\* succeeded.
C12_OriginalRemovedOnSuccess ==
    []ReturnedFilesInPlace /\ [][RemovedAfterVerification]_vars

\* One call has returned its path while the untrimmed file of another,
\* failed, call is still in output_dir.
C12_Witness ==
    /\ proc_pc = "collect"
    /\ \E r, q \in DOMAIN task :
          /\ task[r] = "ok" /\ <<"trimmed", r>> \in output_dir
          /\ task[q] = "None" /\ <<"raw", q>> \in output_dir

----------------------------------------------------------------------------
(* Claims about bm_generator *)

\* The k-th pair (k counted from 0) the generator is expected to produce.
ExpectedSample(k) == At(X_t, k % Len(X_t))
ExpectedLabel(k) == At(y_t, k % Len(X_t))

IsOneHot(v, label) ==
    /\ DOMAIN v = Labels(num_classes)
    /\ \A c \in DOMAIN v : v[c] = (IF c = label THEN 1 ELSE 0)
    /\ Cardinality({c \in DOMAIN v : v[c] = 1}) = 1

\* The batches taken so far, the one being filled included.
BatchesStarted == epoch * steps_per_epoch(Len(X_t), batch_size) + fit_step

\* C13: over a non-empty dataset of n samples the generator never ends and
\* yields batches of exactly batch_size samples; the k-th sample produced
\* overall is X_t[k mod n] with the one-hot vector of y_t[k mod n], which
\* has exactly one entry set to 1; the cursor val stays within 0..n, follows
\* the number of samples produced, and is not reset between batches or
\* epochs.
C13_GeneratorCycles ==
    gen_pc # "idle" =>
        LET n == Len(X_t)
            produced == Len(stream)
        IN /\ gen_pc \in {"suspended", "fill"}
           /\ gen_pc = "fill" => ENABLED (AppendSample \/ YieldBatch)
           /\ val \in 0..n
           /\ val = (IF produced = 0 THEN 0 ELSE ((produced - 1) % n) + 1)
           /\ \A k \in 0..(produced - 1) :
                 /\ At(stream, k)[1] = ExpectedSample(k)
                 /\ IsOneHot(At(stream, k)[2], ExpectedLabel(k))
           /\ Len(X_batch) = Len(y_batch)
           /\ \A i \in 1..Len(X_batch) :
                 <<X_batch[i], y_batch[i]>> = stream[produced - Len(X_batch) + i]
           /\ gen_pc = "fill" =>
                 /\ Len(X_batch) = gen_j /\ gen_j <= batch_size
                 /\ produced = BatchesStarted * batch_size + gen_j
           /\ gen_pc = "suspended" =>
                 /\ produced = BatchesStarted * batch_size
                 /\ produced > 0 => Len(X_batch) = batch_size

\* In a later epoch a batch has been yielded in which the cursor wrapped
\* from the last sample to the first, at a cursor that is not a multiple of
\* the batch size.
C13_Witness ==
    /\ gen_pc = "suspended" /\ epoch >= 1 /\ fit_step >= 1
    /\ Len(X_t) >= 2 /\ Len(stream) > Len(X_t)
    /\ Len(X_t) % batch_size # 0
    /\ \E i \in 1..(Len(X_batch) - 1) :
          X_batch[i] = X_t[Len(X_t)] /\ X_batch[i + 1] = X_t[1]

====
